---- MODULE Spec2Model ----
(***************************************************************************)
(* The set-colors remote command of kitty (kitty/rc/set_colors.py).        *)
(*                                                                         *)
(* Client half: parse_colors and SetColors.message_to_kitty turn options   *)
(* and positional tokens into a payload, or raise ParsingOfArgsFailed.     *)
(* Host half: SetColors.response_from_kitty resolves the target windows,   *)
(* patches their colour profiles and the configured colours, and notifies  *)
(* the windows.                                                            *)
(***************************************************************************)
EXTENDS Integers, Sequences, FiniteSets, TLC

(***************************************************************************)
(* Bounds                                                                  *)
(***************************************************************************)
\* longest positional argument list given to message_to_kitty
MaxArgs == 2
\* longest resolved window sequence handled by response_from_kitty
MaxTargets == 2

(***************************************************************************)
(* Values                                                                  *)
(***************************************************************************)
\* Python None where an Optional[int] is expected (24-bit colours are >= 0)
Null == -1

\* parsed configuration values: a Color, None, or some other typed value
Color(r, g, b) == [type |-> "Color", red |-> r, green |-> g, blue |-> b]
NoneValue == [type |-> "NoneType"]
FloatValue(x) == [type |-> "float", val |-> x]

isinstance_Color(v) == v.type = "Color"

\* int(Color): the 24-bit RGB projection of a colour
ColorToInt(c) == c.red * 65536 + c.green * 256 + c.blue

\* kitty.options.types.nullable_colors, restricted to the names of the model
nullable_colors == {"cursor"}

\* dict.update(): entries of b override entries of a
DictUpdate(a, b) ==
    [k \in (DOMAIN a) \cup (DOMAIN b) |-> IF k \in DOMAIN b THEN b[k] ELSE a[k]]

EmptyDict == [k \in {} |-> Null]

\* the dict with the single item k: v
Item(k, v) == [x \in {k} |-> v]

(***************************************************************************)
(* Client half: tokens, files and the configuration grammar                *)
(***************************************************************************)
\* A token is the sequence of its lexemes; "=" and " " are lexemes.
Tokens ==
    { <<"background", "=", "red">>,
      <<"background", "=", "black">>,
      <<"cursor", "=", "none">>,
      <<"cursor", "=", "red">>,
      <<"font_size", "=", "12">>,
      <<"background", "=", "bogus">>,
      <<"theme.conf">>,
      <<"dark.conf">>,
      <<"broken.conf">>,
      <<"missing.conf">> }

\* the configuration files that exist, as their lines
Files ==
    [p \in {"theme.conf", "dark.conf", "broken.conf"} |->
        CASE p = "theme.conf" ->
               << <<"background", " ", "red">>, <<"cursor", " ", "none">> >>
          [] p = "dark.conf" ->
               << <<"cursor", " ", "red">>, <<"background", " ", "red">>,
                  <<"background", " ", "black">> >>
          [] OTHER ->
               << <<"cursor", " ", "red">>, <<"background", " ", "bogus">> >>]

\* '=' in spec
HasAssignment(spec) == \E i \in 1..Len(spec) : spec[i] = "="

\* only the key kept when the token is split at '='
ReplaceAssignmentDropsValue(spec) == <<spec[1], " ", "none">>

\* spec.replace('=', ' ')
ReplaceAssignment(spec) ==
    [i \in 1..Len(spec) |-> IF spec[i] = "=" THEN " " ELSE spec[i]]

\* the colour names the grammar knows
ColorValues ==
    [n \in {"red", "black"} |-> IF n = "red" THEN Color(255, 0, 0) ELSE Color(0, 0, 0)]

\* one configuration line "key value": the parsed item, or failure
ParseLine(line) ==
    IF Len(line) # 3 \/ line[2] # " "
    THEN [ok |-> FALSE, exc |-> "ValueError", msg |-> line]
    ELSE LET key == line[1]
             val == line[3]
         IN  CASE key = "background" ->
                    IF val \in DOMAIN ColorValues
                    THEN [ok |-> TRUE, items |-> Item(key, ColorValues[val])]
                    ELSE [ok |-> FALSE, exc |-> "ValueError", msg |-> line]
               [] key = "cursor" ->
                    IF val \in DOMAIN ColorValues
                    THEN [ok |-> TRUE, items |-> Item(key, ColorValues[val])]
                    ELSE IF val = "none"
                         THEN [ok |-> TRUE, items |-> Item(key, NoneValue)]
                         ELSE [ok |-> FALSE, exc |-> "ValueError", msg |-> line]
               [] key = "font_size" ->
                    IF val = "12"
                    THEN [ok |-> TRUE, items |-> Item(key, FloatValue(12))]
                    ELSE [ok |-> FALSE, exc |-> "ValueError", msg |-> line]
               [] OTHER -> [ok |-> FALSE, exc |-> "ValueError", msg |-> line]

\* parse_config(lines): the items of the lines, later lines overriding
\* earlier ones; fails on the first malformed line
RECURSIVE parse_config_from(_, _, _)
RECURSIVE parse_config_next(_, _, _, _)
parse_config_from(lines, i, acc) ==
    IF i > Len(lines) THEN [ok |-> TRUE, items |-> acc]
    ELSE parse_config_next(lines, i, acc, ParseLine(lines[i]))

\* r is what line i parsed to
parse_config_next(lines, i, acc, r) ==
    IF r.ok THEN parse_config_from(lines, i + 1, DictUpdate(acc, r.items)) ELSE r

parse_config(lines) == parse_config_from(lines, 1, [k \in {} |-> NoneValue])

(***************************************************************************)
(* parse_colors                                                            *)
(***************************************************************************)
\* open(os.path.expanduser(spec)): the lines of the file, or FileNotFoundError
OpenFile(spec) ==
    IF spec[1] \in DOMAIN Files
    THEN [ok |-> TRUE, lines |-> Files[spec[1]]]
    ELSE [ok |-> FALSE, exc |-> "FileNotFoundError", filename |-> spec[1]]

\* an update that keeps the entries already present (first wins)
UpdateColorsKeepsFirst(colors, items) == DictUpdate(items, colors)

\* colors.update(items)
UpdateColors(colors, items) == DictUpdate(colors, items)

\* colors.update(parse_config(...)), r being what parse_config returned or raised
MergeItems(colors, r) ==
    IF r.ok THEN [ok |-> TRUE, colors |-> UpdateColors(colors, r.items)] ELSE r

\* the file branch with a missing file skipped instead of raising
MergeFileSkipsMissing(colors, f) ==
    IF ~f.ok THEN [ok |-> TRUE, colors |-> colors]
    ELSE MergeItems(colors, parse_config(f.lines))

\* the file branch of the loop body, f being what open() returned or raised
MergeFile(colors, f) ==
    IF ~f.ok THEN f ELSE MergeItems(colors, parse_config(f.lines))

\* the body of the loop over args: one token merged into colors, or the
\* exception it raises
MergeToken(colors, spec) ==
    IF HasAssignment(spec)
    THEN MergeItems(colors, parse_config(<<ReplaceAssignment(spec)>>))
    ELSE MergeFile(colors, OpenFile(spec))

\* for spec in args: ..., left to right from args[i]; an exception ends the loop
RECURSIVE MergeArgs(_, _, _)
RECURSIVE MergeRest(_, _, _)
MergeArgs(args, i, colors) ==
    IF i > Len(args) THEN [ok |-> TRUE, colors |-> colors]
    ELSE MergeRest(args, i, MergeToken(colors, args[i]))

\* r is what the loop body did with args[i]
MergeRest(args, i, r) ==
    IF r.ok THEN MergeArgs(args, i + 1, r.colors) ELSE r

\* the loop over nullable_colors: the popped entries, as int or None
NullableColorMap(colors) ==
    [k \in nullable_colors \cap DOMAIN colors |->
        IF isinstance_Color(colors[k]) THEN ColorToInt(colors[k]) ELSE Null]

\* the nullable names read with get() instead of pop(): they stay in colors
PoppedColorsNotRemoved(colors) == colors

\* colors once every nullable name has been popped from it
PoppedColors(colors) ==
    [k \in (DOMAIN colors) \ nullable_colors |-> colors[k]]

\* the comprehension without its isinstance filter: other values become None
GenericColorMapUnfiltered(colors) ==
    [k \in DOMAIN colors |->
        IF isinstance_Color(colors[k]) THEN ColorToInt(colors[k]) ELSE Null]

\* {k: int(v) for k, v in colors.items() if isinstance(v, Color)}
GenericColorMap(colors) ==
    [k \in {x \in DOMAIN colors : isinstance_Color(colors[x])} |-> ColorToInt(colors[k])]

\* the dict parse_colors returns, together with its two parts
Answer(merged, generic, nullable_color_map) ==
    [ok |-> TRUE,
     merged |-> merged,
     generic |-> generic,
     nullable_color_map |-> nullable_color_map,
     ans |-> DictUpdate(generic, nullable_color_map)]

\* lines 40-47, m being what the loop over args left or raised
SplitColors(m) ==
    IF ~m.ok THEN m
    ELSE Answer(m.colors, GenericColorMap(PoppedColors(m.colors)),
                NullableColorMap(m.colors))

\* parse_colors(args): the returned dict, or the exception raised
parse_colors(args) == SplitColors(MergeArgs(args, 1, [k \in {} |-> NoneValue]))

(***************************************************************************)
(* SetColors.message_to_kitty                                              *)
(***************************************************************************)
\* the option sets message_to_kitty is called with (match options are passed
\* through unread)
Options == [all : BOOLEAN, configured : BOOLEAN, reset : BOOLEAN]

\* parse_colors was not called
NotParsed == [ok |-> FALSE, exc |-> "not parsed"]

\* lines 95-98: the exception of parse_colors raised as ParsingOfArgsFailed
ParsingOfArgsFailed(err) ==
    IF err.exc = "FileNotFoundError"
    THEN [raised |-> "ParsingOfArgsFailed", cause |-> err.exc,
          message |-> <<"The colors configuration file", err.filename, "was not found.">>]
    ELSE [raised |-> "ParsingOfArgsFailed", cause |-> err.exc, message |-> err.msg]

\* lines 99-104: the payload
Payload(opts, final_colors) ==
    [raised |-> "",
     all |-> opts.all \/ opts.reset,
     configured |-> opts.configured \/ opts.reset,
     colors |-> final_colors,
     reset |-> opts.reset]

\* lines 93-104 once parse_colors has returned or raised r
Outcome(opts, r) ==
    [parsed |-> r,
     out |-> IF r.ok THEN Payload(opts, r.ans) ELSE ParsingOfArgsFailed(r)]

\* parse_colors called without the "if not opts.reset" around it
message_to_kitty_always_parses(opts, args) == Outcome(opts, parse_colors(args))

\* what parse_colors did in the call (parsed), and the outcome of the call
\* (out): the payload, or the ParsingOfArgsFailed raised instead of it
message_to_kitty(opts, args) ==
    IF ~opts.reset THEN Outcome(opts, parse_colors(args))
    ELSE [parsed |-> NotParsed, out |-> Payload(opts, EmptyDict)]

\* argument lists of at most MaxArgs tokens
ArgLists == UNION {[1..n -> Tokens] : n \in 0..MaxArgs}

(***************************************************************************)
(* Host half: windows, colour profiles and the startup snapshot            *)
(***************************************************************************)
\* the windows of the host
WindowIds == {1, 2}
\* a window reference that is falsy (None)
NoWindow == 0

\* the colour names of a ColorProfile
ColorNames == {"background", "cursor"}

\* 24-bit colours used by the model: black and red
ColorInts == {ColorToInt(ColorValues[n]) : n \in DOMAIN ColorValues}

\* colors: names to 24-bit integers, or null for nullable colors
ColorMaps ==
    UNION {{m \in [d -> ColorInts \cup {Null}] :
               \A k \in d : m[k] = Null => k \in nullable_colors} :
           d \in SUBSET ColorNames}

\* the fields of a payload that response_from_kitty reads itself; match_window,
\* match_tab and all are read by windows_for_payload only
Payloads == [colors : ColorMaps, configured : BOOLEAN, reset : BOOLEAN]

\* the values boss.color_settings_at_startup can hold
StartupSettings ==
    { [k \in ColorNames |-> IF k = "background" THEN Color(0, 0, 0) ELSE NoneValue],
      [k \in ColorNames |-> IF k = "background" THEN Color(255, 0, 0) ELSE Color(0, 0, 0)] }

\* what windows_for_payload can return: distinct window references, some of
\* which may be falsy
RECURSIVE SeqsOver(_, _)
SeqsOver(S, n) ==
    IF n = 0 THEN {<<>>}
    ELSE LET shorter == SeqsOver(S, n - 1)
         IN  shorter \cup {Append(q, x) : q \in {r \in shorter : Len(r) = n - 1}, x \in S}

TargetSeqs ==
    {q \in SeqsOver(WindowIds \cup {NoWindow}, MaxTargets) :
        \A a, b \in 1..Len(q) : a # b => q[a] # q[b]}

\* one colour table patched with a colour map
PatchProfile(profile, colors) ==
    [k \in DOMAIN profile |-> IF k \in DOMAIN colors THEN colors[k] ELSE profile[k]]

\* patch_color_profiles(colors, profiles, change_configured): the live table of
\* every given profile, and the configured table they share when asked
patch_color_profiles(colors, profs, change_configured, lv, conf) ==
    [live |-> [w \in DOMAIN lv |->
                  IF \E j \in 1..Len(profs) : profs[j] = w
                  THEN PatchProfile(lv[w], colors) ELSE lv[w]],
     configured |-> IF change_configured /\ Len(profs) > 0
                    THEN PatchProfile(conf, colors) ELSE conf]

\* boss.patch_colors(colors, configured): the configured colours of the process
boss_patch_colors(colors, change_configured, conf) ==
    IF change_configured THEN PatchProfile(conf, colors) ELSE conf

(***************************************************************************)
(* SetColors.response_from_kitty, statement by statement                   *)
(***************************************************************************)
\* the payload's colours applied even when reset is set
AppliedColorsIgnoresReset(p, settings) == p.colors

\* the colour map applied: the payload's, or on reset the startup snapshot
\* as integer-or-null
AppliedColors(p, settings) ==
    IF p.reset
    THEN [k \in DOMAIN settings |->
             IF settings[k] = NoneValue THEN Null ELSE ColorToInt(settings[k])]
    ELSE p.colors

\* the profiles taken without the "if w" filter
ProfilesUnfiltered(ws) == ws

\* the profiles of every window of the host instead of the resolved ones
ProfilesOfAllWindows(ws) == <<1, 2>>

\* tuple(w.screen.color_profile for w in windows if w)
Profiles(ws) == SelectSeq(ws, LAMBDA w : w # NoWindow)

\* the configured colours changed whatever the payload says
ConfiguredFlagAlwaysSet(p) == TRUE

\* the configured colours changed whenever reset is set
ConfiguredFlagImpliedByReset(p) == p.configured \/ p.reset

\* payload_get('configured')
ConfiguredFlag(p) == p.configured

\* default_bg_changed = 'background' in colors
default_bg_changed(cs) == "background" \in DOMAIN cs

\* the loop body with the refresh issued first
WindowNotificationsRefreshFirst(w, bg_changed) ==
    IF w # NoWindow
    THEN IF bg_changed
         THEN << <<"refresh", w>>, <<"default_bg_changed_for", w>> >>
         ELSE << <<"refresh", w>> >>
    ELSE <<>>

\* the loop body with the background change notified whatever colors holds
WindowNotificationsAlwaysBackground(w, bg_changed) ==
    IF w # NoWindow
    THEN << <<"default_bg_changed_for", w>>, <<"refresh", w>> >>
    ELSE <<>>

\* the notifications one pass of the loop body issues for w
WindowNotifications(w, bg_changed) ==
    IF w # NoWindow
    THEN IF bg_changed
         THEN << <<"default_bg_changed_for", w>>, <<"refresh", w>> >>
         ELSE << <<"refresh", w>> >>
    ELSE <<>>

\* the notification loop moved in front of the two patch calls
StatementAfterNotifyFirst(s) ==
    CASE s = "windows_for_payload" -> "notify"
      [] s = "notify" -> "patch_color_profiles"
      [] s = "patch_color_profiles" -> "patch_colors"
      [] s = "patch_colors" -> "return"

\* boss.patch_colors left out of the statement order
StatementAfterSkipsPatchColors(s) ==
    CASE s = "windows_for_payload" -> "patch_color_profiles"
      [] s = "patch_color_profiles" -> "notify"
      [] s = "notify" -> "return"

\* the order of the statements of response_from_kitty after target resolution
StatementAfter(s) ==
    CASE s = "windows_for_payload" -> "patch_color_profiles"
      [] s = "patch_color_profiles" -> "patch_colors"
      [] s = "patch_colors" -> "notify"
      [] s = "notify" -> "return"

(***************************************************************************)
(* State                                                                   *)
(***************************************************************************)
VARIABLES
    opts,           \* client: the options of the current call of message_to_kitty
    args,           \* client: its positional arguments
    msg,            \* client: what the call produced (payload or exception)
    parsed,         \* client: what parse_colors did in the call
    live,           \* host: the live colour table of every window
    configured,     \* host: the shared configured colour table
    startup,        \* host: boss.color_settings_at_startup
    payload,        \* host: the payload of the invocation
    windows,        \* host: the resolved window sequence
    colors,         \* host: the local colors of response_from_kitty
    profiles,       \* host: the local profiles of response_from_kitty
    pc,             \* host: the statement response_from_kitty executes next
    idx,            \* host: position of the notification loop in windows
    notifications,  \* host: the notifications issued by the invocation, in order
    response,       \* host: what the invocation returned
    before,         \* history: live and configured when the invocation began
    repeat          \* history: the invocation repeats the previous one

clientVars == <<opts, args, msg, parsed>>
hostVars == <<live, configured, startup, payload, windows, colors, profiles, pc,
              idx, notifications, response, before, repeat>>
vars == <<opts, args, msg, parsed, live, configured, startup, payload, windows, colors,
          profiles, pc, idx, notifications, response, before, repeat>>

NotCalled == [raised |-> "not called"]

\* the startup snapshot as a colour table
StartupProfile(settings) ==
    [k \in DOMAIN settings |->
        IF settings[k] = NoneValue THEN Null ELSE ColorToInt(settings[k])]

ClientIdle ==
    /\ opts = [all |-> FALSE, configured |-> FALSE, reset |-> FALSE]
    /\ args = <<>>
    /\ msg = NotCalled
    /\ parsed = NotParsed

HostIdle ==
    /\ startup \in StartupSettings
    /\ live = [w \in WindowIds |-> StartupProfile(startup)]
    /\ configured = StartupProfile(startup)
    /\ payload = [colors |-> EmptyDict, configured |-> FALSE, reset |-> FALSE]
    /\ windows = <<>>
    /\ colors = EmptyDict
    /\ profiles = <<>>
    /\ pc = "idle"
    /\ idx = 1
    /\ notifications = <<>>
    /\ response = "none"
    /\ before = [live |-> live, configured |-> configured]
    /\ repeat = FALSE

(***************************************************************************)
(* Host actions                                                            *)
(***************************************************************************)
\* lines 107-111: the targets are resolved and the locals computed
Enter(p, ws, again) ==
    /\ payload' = p
    /\ windows' = ws
    /\ colors' = AppliedColors(p, startup)
    /\ profiles' = Profiles(ws)
    /\ pc' = StatementAfter("windows_for_payload")
    /\ idx' = 1
    /\ notifications' = <<>>
    /\ response' = "pending"
    /\ before' = [live |-> live, configured |-> configured]
    /\ repeat' = again
    /\ UNCHANGED <<live, configured, startup, opts, args, msg, parsed>>

\* a request arrives and its targets are resolved
Begin ==
    /\ pc = "idle"
    /\ \E p \in Payloads, ws \in TargetSeqs : Enter(p, ws, FALSE)

\* the same payload arrives again and resolves to the same targets
BeginAgain ==
    /\ pc = "done"
    /\ Enter(payload, windows, TRUE)

\* windows_for_payload called, and raising, after boss.patch_colors
ResolveFailsAfterPatch ==
    /\ pc = "idle"
    /\ \E p \in Payloads :
          /\ payload' = p
          /\ configured' = boss_patch_colors(AppliedColors(p, startup),
                                             ConfiguredFlag(p), configured)
    /\ windows' = <<>>
    /\ colors' = EmptyDict
    /\ profiles' = <<>>
    /\ pc' = "raised"
    /\ idx' = 1
    /\ notifications' = <<>>
    /\ response' = "error"
    /\ before' = [live |-> live, configured |-> configured]
    /\ repeat' = FALSE
    /\ UNCHANGED <<live, startup, opts, args, msg, parsed>>

\* the first window refreshed before windows_for_payload is called and raises
ResolveFailsAfterRefresh ==
    /\ pc = "idle"
    /\ \E p \in Payloads : payload' = p
    /\ windows' = <<>>
    /\ colors' = EmptyDict
    /\ profiles' = <<>>
    /\ pc' = "raised"
    /\ idx' = 1
    /\ notifications' = << <<"refresh", 1>> >>
    /\ response' = "error"
    /\ before' = [live |-> live, configured |-> configured]
    /\ repeat' = FALSE
    /\ UNCHANGED <<live, configured, startup, opts, args, msg, parsed>>

\* windows_for_payload raises: the invocation ends with an error response
ResolveFails ==
    /\ pc = "idle"
    /\ \E p \in Payloads : payload' = p
    /\ windows' = <<>>
    /\ colors' = EmptyDict
    /\ profiles' = <<>>
    /\ pc' = "raised"
    /\ idx' = 1
    /\ notifications' = <<>>
    /\ response' = "error"
    /\ before' = [live |-> live, configured |-> configured]
    /\ repeat' = FALSE
    /\ UNCHANGED <<live, configured, startup, opts, args, msg, parsed>>

\* line 112
PatchColorProfiles ==
    /\ pc = "patch_color_profiles"
    /\ LET r == patch_color_profiles(colors, profiles, ConfiguredFlag(payload),
                                     live, configured)
       IN  /\ live' = r.live
           /\ configured' = r.configured
    /\ pc' = StatementAfter("patch_color_profiles")
    /\ UNCHANGED <<startup, payload, windows, colors, profiles, idx,
                   notifications, response, before, repeat, opts, args, msg, parsed>>

\* line 113 given the colours the first profile held on entry instead of colors
BossPatchColorsFromEntryTable ==
    /\ pc = "patch_colors"
    /\ configured' =
           IF profiles = <<>> THEN boss_patch_colors(colors, ConfiguredFlag(payload), configured)
           ELSE boss_patch_colors([k \in DOMAIN colors |-> before.live[profiles[1]][k]],
                                  ConfiguredFlag(payload), configured)
    /\ pc' = StatementAfter("patch_colors")
    /\ UNCHANGED <<live, startup, payload, windows, colors, profiles, idx,
                   notifications, response, before, repeat, opts, args, msg, parsed>>

\* line 113
BossPatchColors ==
    /\ pc = "patch_colors"
    /\ configured' = boss_patch_colors(colors, ConfiguredFlag(payload), configured)
    /\ pc' = StatementAfter("patch_colors")
    /\ UNCHANGED <<live, startup, payload, windows, colors, profiles, idx,
                   notifications, response, before, repeat, opts, args, msg, parsed>>

\* lines 115-119: one pass of the loop over windows
Notify ==
    /\ pc = "notify"
    /\ idx <= Len(windows)
    /\ notifications' =
           notifications \o WindowNotifications(windows[idx], default_bg_changed(colors))
    /\ idx' = idx + 1
    /\ UNCHANGED <<live, configured, startup, payload, windows, colors, profiles,
                   pc, response, before, repeat, opts, args, msg, parsed>>

\* the loop over windows is exhausted
NotifyDone ==
    /\ pc = "notify"
    /\ idx > Len(windows)
    /\ pc' = StatementAfter("notify")
    /\ UNCHANGED <<live, configured, startup, payload, windows, colors, profiles,
                   idx, notifications, response, before, repeat, opts, args, msg, parsed>>

\* line 120
Return ==
    /\ pc = "return"
    /\ pc' = "done"
    /\ response' = "null"
    /\ UNCHANGED <<live, configured, startup, payload, windows, colors, profiles,
                   idx, notifications, before, repeat, opts, args, msg, parsed>>

\* the response is delivered; the host waits for the next request
Deliver ==
    /\ pc \in {"done", "raised"}
    /\ payload' = [colors |-> EmptyDict, configured |-> FALSE, reset |-> FALSE]
    /\ windows' = <<>>
    /\ colors' = EmptyDict
    /\ profiles' = <<>>
    /\ pc' = "idle"
    /\ idx' = 1
    /\ notifications' = <<>>
    /\ response' = "none"
    /\ before' = [live |-> live, configured |-> configured]
    /\ repeat' = FALSE
    /\ UNCHANGED <<live, configured, startup, opts, args, msg, parsed>>

(***************************************************************************)
(* Client actions                                                          *)
(***************************************************************************)
\* message_to_kitty runs on the command line the client process was started
\* with; the process ends with it
MessageToKitty ==
    /\ msg = NotCalled
    /\ msg' = message_to_kitty(opts, args).out
    /\ parsed' = message_to_kitty(opts, args).parsed
    /\ UNCHANGED <<opts, args>>
    /\ UNCHANGED hostVars

(***************************************************************************)
(* Specifications                                                          *)
(***************************************************************************)
Init == ClientIdle /\ HostIdle

Next ==
    \/ Begin
    \/ BeginAgain
    \/ ResolveFails
    \/ PatchColorProfiles
    \/ BossPatchColors
    \/ Notify
    \/ NotifyDone
    \/ Return
    \/ Deliver

Spec == Init /\ [][Next]_vars

InitClient ==
    /\ opts \in Options
    /\ args \in ArgLists
    /\ msg = NotCalled
    /\ parsed = NotParsed
    /\ HostIdle

NextClient == MessageToKitty

SpecClient == InitClient /\ [][NextClient]_vars

(***************************************************************************)
(* Properties of the client half (checked under SpecClient)                *)
(***************************************************************************)
\* a token that names a missing file
MissingFile(t) == ~HasAssignment(t) /\ t[1] \notin DOMAIN Files

\* a token that is, or whose file holds, a malformed entry
Malformed(t) ==
    IF HasAssignment(t) THEN ~ParseLine(ReplaceAssignment(t)).ok
    ELSE /\ t[1] \in DOMAIN Files
         /\ \E n \in 1..Len(Files[t[1]]) : ~ParseLine(Files[t[1]][n]).ok

BadToken(t) == MissingFile(t) \/ Malformed(t)

\* the configuration lines of a token, in order
TokenLines(t) ==
    IF HasAssignment(t) THEN <<ReplaceAssignment(t)>>
    ELSE IF t[1] \in DOMAIN Files THEN Files[t[1]] ELSE <<>>

\* the configuration lines of an argument list, in argument order
RECURSIVE AllLines(_)
AllLines(as) ==
    IF as = <<>> THEN <<>> ELSE TokenLines(Head(as)) \o AllLines(Tail(as))

\* the value the grammar gives the entry of a well-formed line
LineValue(line) == ParseLine(line).items[line[1]]

\* the position of the last line for key k
LastLine(lines, k) ==
    CHOOSE n \in 1..Len(lines) :
        /\ lines[n][1] = k
        /\ \A m \in (n + 1)..Len(lines) : lines[m][1] # k

\* C1: with opts.reset set, message_to_kitty does not parse the args, raises
\* nothing and returns reset, all and configured true with an empty colors
\* map, whatever args, opts.all and opts.configured are.
C1_ResetIgnoresArgs ==
    (msg # NotCalled /\ opts.reset) =>
        /\ parsed = NotParsed
        /\ msg.raised = ""
        /\ msg.reset /\ msg.all /\ msg.configured
        /\ msg.colors = EmptyDict

C1_Witness ==
    /\ msg # NotCalled
    /\ opts.reset /\ ~opts.all /\ ~opts.configured
    /\ Len(args) = MaxArgs
    /\ MissingFile(args[1])
    /\ Malformed(args[2])

\* C8: without reset, a bad token anywhere in args makes message_to_kitty
\* raise ParsingOfArgsFailed (naming the file when the first bad token is a
\* missing file) and no payload, partial or not, is produced.
C8_BadTokenRaises ==
    (msg # NotCalled /\ ~opts.reset /\ \E n \in 1..Len(args) : BadToken(args[n])) =>
        LET first == CHOOSE n \in 1..Len(args) :
                        BadToken(args[n]) /\ \A m \in 1..(n - 1) : ~BadToken(args[m])
        IN  /\ msg.raised = "ParsingOfArgsFailed"
            /\ "colors" \notin DOMAIN msg
            /\ ~parsed.ok
            /\ "ans" \notin DOMAIN parsed
            /\ MissingFile(args[first]) => msg.message[2] = args[first][1]

C8_Witness ==
    /\ msg # NotCalled
    /\ ~opts.reset
    /\ Len(args) = 2
    /\ ~BadToken(args[1])
    /\ MissingFile(args[2])
    /\ msg.raised = "ParsingOfArgsFailed"

\* C9: the tokens are merged left to right and the last entry for a key, in
\* argument order, decides its value in the result, also when the entries
\* for a nullable key differ in kind (colour or unset).
C9_LastWins ==
    (msg # NotCalled /\ ~opts.reset /\ msg.raised = "") =>
        LET lines == AllLines(args)
            keys == {lines[n][1] : n \in 1..Len(lines)}
        IN  /\ DOMAIN msg.colors \subseteq keys
            /\ \A k \in keys :
                  LET v == LineValue(lines[LastLine(lines, k)])
                  IN  IF isinstance_Color(v)
                      THEN k \in DOMAIN msg.colors /\ msg.colors[k] = ColorToInt(v)
                      ELSE IF k \in nullable_colors
                           THEN k \in DOMAIN msg.colors /\ msg.colors[k] = Null
                           ELSE k \notin DOMAIN msg.colors

C9_Witness ==
    /\ msg # NotCalled /\ ~opts.reset /\ msg.raised = ""
    /\ Len(args) = 2
    /\ HasAssignment(args[1]) /\ ~HasAssignment(args[2])
    /\ \E k \in nullable_colors :
          /\ TokenLines(args[1])[1][1] = k
          /\ isinstance_Color(LineValue(TokenLines(args[1])[1]))
          /\ \E n \in 1..Len(TokenLines(args[2])) :
                /\ TokenLines(args[2])[n][1] = k
                /\ LineValue(TokenLines(args[2])[n]) = NoneValue
          /\ msg.colors[k] = Null

\* C10: a nullable name is never in the generic name-to-integer map; when it
\* was given it is in the nullable map only, as the integer of the parsed
\* colour or as null when the parsed value is not a colour.
C10_NullableOnlyInNullableMap ==
    (msg # NotCalled /\ parsed.ok) =>
        \A k \in nullable_colors :
            /\ k \notin DOMAIN parsed.generic
            /\ k \in DOMAIN parsed.merged =>
                  /\ k \in DOMAIN parsed.nullable_color_map
                  /\ parsed.nullable_color_map[k] =
                        (IF isinstance_Color(parsed.merged[k])
                         THEN ColorToInt(parsed.merged[k]) ELSE Null)
            /\ k \notin DOMAIN parsed.merged => k \notin DOMAIN parsed.nullable_color_map

C10_Witness ==
    /\ msg # NotCalled /\ parsed.ok
    /\ \E k \in nullable_colors :
          /\ k \in DOMAIN parsed.merged
          /\ isinstance_Color(parsed.merged[k])
          /\ parsed.nullable_color_map[k] = ColorToInt(parsed.merged[k])
    /\ DOMAIN parsed.generic # {}

(***************************************************************************)
(* Properties of the host half (checked under Spec)                        *)
(***************************************************************************)
\* the valid windows among the resolved ones
Targets == {windows[n] : n \in 1..Len(windows)} \ {NoWindow}

\* C2: an invocation with configured and reset both false leaves the
\* configured colour table as it was, and the live table of every target
\* holds the payload's value for every key of the payload's colors.
C2_ScopeIsolation ==
    (pc = "done" /\ ~payload.configured /\ ~payload.reset) =>
        /\ configured = before.configured
        /\ \A w \in Targets : \A k \in DOMAIN payload.colors :
              live[w][k] = payload.colors[k]

C2_Witness ==
    /\ pc = "done" /\ ~payload.configured /\ ~payload.reset
    /\ Targets = WindowIds
    /\ DOMAIN payload.colors = ColorNames
    /\ \A w \in Targets : \A k \in ColorNames :
          live[w][k] # before.live[w][k] /\ payload.colors[k] # configured[k]

\* C3: an invocation with reset set leaves the live table of every target
\* equal to the startup snapshot (integer or null) on every key of the
\* snapshot, whatever happened before and whatever colors the payload holds.
C3_ResetRoundTrip ==
    (pc = "done" /\ payload.reset) =>
        \A w \in Targets : \A k \in DOMAIN startup :
            live[w][k] = (IF startup[k] = NoneValue THEN Null
                          ELSE ColorToInt(startup[k]))

C3_Witness ==
    /\ pc = "done" /\ payload.reset
    /\ Targets = WindowIds
    /\ \A w \in Targets : \A k \in DOMAIN startup :
          /\ before.live[w][k] # live[w][k]
          /\ k \in DOMAIN payload.colors
          /\ payload.colors[k] # live[w][k]
    /\ \E k \in DOMAIN startup : startup[k] = NoneValue

\* C4: whenever a notification of the invocation has been issued, the live
\* table of every target and, when configured is set, the configured table
\* hold the value of the one applied map for every key of it.
C4_PatchedBeforeNotified ==
    (notifications # <<>>) =>
        \A k \in DOMAIN colors :
            /\ \A w \in Targets : live[w][k] = colors[k]
            /\ payload.configured => configured[k] = colors[k]

C4_Witness ==
    /\ Len(notifications) = 2
    /\ pc = "notify" /\ idx = 2
    /\ payload.configured
    /\ Targets = WindowIds
    /\ \A k \in ColorNames :
          /\ k \in DOMAIN colors
          /\ before.configured[k] # colors[k]
          /\ \A w \in Targets : before.live[w][k] # colors[k]

\* C5: when background is a key of the applied map, a refresh of a window is
\* preceded by the background-change notification of that window; when it is
\* not, no background-change notification is issued.
C5_BackgroundBeforeRefresh ==
    /\ "background" \in DOMAIN colors =>
          \A n \in 1..Len(notifications) :
              notifications[n][1] = "refresh" =>
                  \E m \in 1..(n - 1) :
                      notifications[m] = <<"default_bg_changed_for", notifications[n][2]>>
    /\ "background" \notin DOMAIN colors =>
          \A n \in 1..Len(notifications) :
              notifications[n][1] # "default_bg_changed_for"

C5_Witness ==
    /\ pc = "done"
    /\ "background" \in DOMAIN colors
    /\ Targets = WindowIds
    /\ Len(notifications) = 4

\* C6 as stated: with no window resolved the invocation returns null and
\* changes nothing, whatever the payload.
C6_EmptyMatchChangesNothing ==
    (pc = "done" /\ windows = <<>>) =>
        /\ response = "null"
        /\ live = before.live
        /\ configured = before.configured
        /\ notifications = <<>>

\* C6 amended: with no window resolved the invocation returns null, changes
\* no live table and issues no notification; the configured table is
\* unchanged when configured is false and holds the applied map when it is
\* true.
C6_EmptyMatchTouchesOnlyConfigured ==
    (pc = "done" /\ windows = <<>>) =>
        /\ response = "null"
        /\ live = before.live
        /\ notifications = <<>>
        /\ ~payload.configured => configured = before.configured
        /\ payload.configured =>
              \A k \in ColorNames :
                  configured[k] = (IF k \in DOMAIN colors THEN colors[k]
                                   ELSE before.configured[k])

C6_Witness ==
    /\ pc = "done" /\ windows = <<>>
    /\ payload.reset /\ ~payload.configured
    /\ \E w \in WindowIds : live[w] # StartupProfile(startup)
    /\ configured # StartupProfile(startup)

\* C7: an invocation that repeats the previous one (same payload, same
\* targets) leaves the live tables and the configured table as the previous
\* one left them.
C7_Idempotent ==
    (pc = "done" /\ repeat) =>
        /\ live = before.live
        /\ configured = before.configured

C7_Witness ==
    /\ pc = "done" /\ repeat
    /\ payload.configured
    /\ Targets = WindowIds
    /\ DOMAIN colors = ColorNames
    /\ configured # StartupProfile(startup)

\* how often notification kind for window w was issued
Issued(kind, w) ==
    Cardinality({n \in 1..Len(notifications) : notifications[n] = <<kind, w>>})

\* C11: a completed invocation with reset set leaves both the live table of
\* every target and the configured table equal to the startup snapshot,
\* whatever the other fields of the payload are.
C11_ResetNeverPartial ==
    (pc = "done" /\ payload.reset) =>
        /\ \A w \in Targets : live[w] = StartupProfile(startup)
        /\ configured = StartupProfile(startup)

C13_OneNotificationEach ==
    (pc = "done") =>
        /\ response = "null"
        /\ \A w \in Targets :
              /\ Issued("refresh", w) = 1
              /\ Issued("default_bg_changed_for", w) =
                    (IF "background" \in DOMAIN colors THEN 1 ELSE 0)

C13_Witness ==
    /\ pc = "done"
    /\ Targets = WindowIds
    /\ DOMAIN colors = {"cursor"}
    /\ Len(notifications) = 2

\* C16: a falsy reference among the resolved windows contributes no profile,
\* receives no notification and raises nothing; the valid targets beside it
\* are patched and notified.
C16_FalsyTargetsSkipped ==
    (pc = "done" /\ \E n \in 1..Len(windows) : windows[n] = NoWindow) =>
        /\ response = "null"
        /\ \A n \in 1..Len(profiles) : profiles[n] # NoWindow
        /\ Len(profiles) = Len(windows) - 1
        /\ \A n \in 1..Len(notifications) : notifications[n][2] # NoWindow
        /\ \A w \in Targets :
              /\ \A k \in DOMAIN colors : live[w][k] = colors[k]
              /\ Issued("refresh", w) = 1

C16_Witness ==
    /\ pc = "done"
    /\ Len(windows) = 2
    /\ windows[1] = NoWindow
    /\ windows[2] \in WindowIds
    /\ live[windows[2]] # before.live[windows[2]]
    /\ Len(notifications) = 2

\* C17: when windows_for_payload raises, the invocation ends with every live
\* table and the configured table as they were and without a notification.
C17_ResolutionFailureChangesNothing ==
    (pc = "raised") =>
        /\ response = "error"
        /\ live = before.live
        /\ configured = before.configured
        /\ notifications = <<>>
        /\ profiles = <<>>

C17_Witness ==
    /\ pc = "raised"
    /\ payload.reset
    /\ configured # StartupProfile(startup)
    /\ \A w \in WindowIds : live[w] # StartupProfile(startup)

\* C19: a window that is not a target keeps its live table and receives no
\* notification, and a target keeps its value for every colour name that is
\* not a key of the applied map.
C19_Frame ==
    /\ \A w \in WindowIds \ Targets :
          /\ live[w] = before.live[w]
          /\ \A n \in 1..Len(notifications) : notifications[n][2] # w
    /\ \A w \in Targets : \A k \in ColorNames \ DOMAIN colors :
          live[w][k] = before.live[w][k]

C19_Witness ==
    /\ pc = "done"
    /\ Cardinality(Targets) = 1
    /\ DOMAIN colors = {"background"}
    /\ \A w \in Targets : live[w] # before.live[w]
    /\ \A w \in WindowIds \ Targets : live[w]["background"] # colors["background"]

\* C15 as stated: a field of the configured table becomes null only in an
\* invocation with reset set.
C15_ConfiguredNullOnlyByReset ==
    \A k \in ColorNames :
        (configured[k] = Null /\ before.configured[k] # Null) => payload.reset

\* C15 amended: a field of the configured table becomes null only in an
\* invocation with configured set whose applied map (the payload's colors, or
\* the startup snapshot on reset) holds null for that field, and the field is
\* a nullable one.
C15_ConfiguredNullOnlyFromAppliedMap ==
    \A k \in ColorNames :
        (configured[k] = Null /\ before.configured[k] # Null) =>
            /\ payload.configured
            /\ k \in nullable_colors
            /\ k \in DOMAIN colors
            /\ colors[k] = Null

C15_Witness ==
    /\ pc = "done"
    /\ ~payload.reset /\ payload.configured
    /\ \E k \in nullable_colors :
          /\ configured[k] = Null
          /\ before.configured[k] # Null
          /\ StartupProfile(startup)[k] # Null

(***************************************************************************)
(* Further properties of the client half (checked under SpecClient)        *)
(***************************************************************************)
\* the inline token at position n is not overridden by a later token
NotOverridden(n) ==
    \A m \in (n + 1)..Len(args) :
        \A j \in 1..Len(TokenLines(args[m])) : TokenLines(args[m])[j][1] # args[n][1]

\* C14 as stated: every token k=v puts key k into the returned colors map,
\* unless a later token overrides it.
C14_TokenAlwaysContributesKey ==
    (msg # NotCalled /\ ~opts.reset /\ msg.raised = "") =>
        \A n \in 1..Len(args) :
            (HasAssignment(args[n]) /\ NotOverridden(n)) =>
                args[n][1] \in DOMAIN msg.colors

\* C14 amended: every well-formed token k=v yields exactly one entry, for key
\* k, with the value of the configuration grammar; unless a later token
\* overrides it, k is a key of the returned colors map exactly when that
\* value is a colour or k is nullable.
C14_TokenYieldsOneEntry ==
    (msg # NotCalled /\ ~opts.reset /\ \A n \in 1..Len(args) : ~BadToken(args[n])) =>
        /\ msg.raised = ""
        /\ \A n \in 1..Len(args) :
              (HasAssignment(args[n]) /\ NotOverridden(n)) =>
                  LET k == args[n][1]
                      v == ColorValues[args[n][3]]
                  IN  /\ DOMAIN parse_config(<<ReplaceAssignment(args[n])>>).items = {k}
                      /\ k \in DOMAIN parsed.merged
                      /\ IF args[n][3] \in DOMAIN ColorValues
                         THEN /\ parsed.merged[k] = v
                              /\ k \in DOMAIN msg.colors
                              /\ msg.colors[k] = ColorToInt(v)
                         ELSE /\ ~isinstance_Color(parsed.merged[k])
                              /\ k \in DOMAIN msg.colors <=> k \in nullable_colors
                              /\ k \in DOMAIN msg.colors => msg.colors[k] = Null

C14_Witness ==
    /\ msg # NotCalled /\ ~opts.reset /\ msg.raised = ""
    /\ Len(args) = 2
    /\ args[1] = <<"font_size", "=", "12">>
    /\ args[2] = <<"background", "=", "red">>
    /\ DOMAIN msg.colors = {"background"}

\* C18: in the map parse_colors returns, a key that is not nullable maps to
\* the integer of a parsed colour, never to null; a merged entry that is not
\* nullable and not a colour is absent from the map.
C18_GenericKeysAreIntegers ==
    (msg # NotCalled /\ parsed.ok) =>
        /\ \A k \in (DOMAIN parsed.ans) \ nullable_colors :
              /\ parsed.ans[k] # Null
              /\ parsed.ans[k] \in 0..16777215
              /\ k \in DOMAIN parsed.merged
              /\ isinstance_Color(parsed.merged[k])
              /\ parsed.ans[k] = ColorToInt(parsed.merged[k])
        /\ \A k \in (DOMAIN parsed.merged) \ nullable_colors :
              ~isinstance_Color(parsed.merged[k]) => k \notin DOMAIN parsed.ans
        /\ msg.raised = "" /\ msg.colors = parsed.ans

C18_Witness ==
    /\ msg # NotCalled /\ parsed.ok
    /\ "font_size" \in DOMAIN parsed.merged
    /\ "font_size" \notin DOMAIN parsed.ans
    /\ "background" \in DOMAIN parsed.ans
    /\ "cursor" \in DOMAIN parsed.ans /\ parsed.ans["cursor"] = Null

====
